---------------------------- MODULE Spec2Model ----------------------------
(***************************************************************************)
(* The MEXC portfolio server: one Express route, GET /api/portfolio-data,  *)
(* in the ten versions the repository holds (two in server.js, one in each *)
(* of part_000 .. part_007).  A version fetches from the exchange          *)
(* (signed private endpoints, public ticker and contract endpoints),       *)
(* computes the portfolio figures and answers once.                        *)
(***************************************************************************)
EXTENDS Integers, Sequences, FiniteSets, TLC

(***************************************************************************)
(* JavaScript values.  A value is [t, n, d]: t is its kind, n/d the number *)
(* it holds (a rational, d > 0) when t is "num", or the number a numeric   *)
(* string spells when t is "str".                                          *)
(*   num   a finite number            str   a numeric string ("12.5")      *)
(*   bad   a non-numeric string       null  null                           *)
(*   undef undefined / missing field  nan   NaN                            *)
(*   inf, ninf   +Infinity, -Infinity                                      *)
(*   huge  a string that spells a number beyond the doubles ("1e999") or   *)
(*         "Infinity": parseFloat and Number both read it as Infinity      *)
(***************************************************************************)
Num(k) == [t |-> "num", n |-> k, d |-> 1]
Str(k) == [t |-> "str", n |-> k, d |-> 1]
BadStr == [t |-> "bad", n |-> 0, d |-> 1]
Null == [t |-> "null", n |-> 0, d |-> 1]
Undef == [t |-> "undef", n |-> 0, d |-> 1]
NaN == [t |-> "nan", n |-> 0, d |-> 1]
PosInf == [t |-> "inf", n |-> 0, d |-> 1]
NegInf == [t |-> "ninf", n |-> 0, d |-> 1]
HugeStr == [t |-> "huge", n |-> 0, d |-> 1]

\* typeof v === 'number' && !isNaN(v)
IsNumber(v) == v.t \in {"num", "inf", "ninf"}

\* ToBoolean: 0, NaN, null, undefined are falsy; a non-empty string is truthy.
Truthy(v) == CASE v.t = "num" -> v.n # 0
               [] v.t \in {"str", "bad", "huge", "inf", "ninf"} -> TRUE
               [] OTHER -> FALSE

\* a || b
JsOr(a, b) == IF Truthy(a) THEN a ELSE b

\* parseFloat(v): ToString(v), then the longest numeric prefix; NaN without one.
ParseFloat(v) == CASE v.t \in {"num", "str"} -> [t |-> "num", n |-> v.n, d |-> v.d]
                   [] v.t \in {"inf", "ninf"} -> v
                   [] v.t = "huge" -> PosInf
                   [] OTHER -> NaN

\* ToNumber(v), the coercion of the arithmetic operators: null is 0,
\* undefined and a non-numeric string are NaN.
ToNumber(v) == CASE v.t \in {"num", "str"} -> [t |-> "num", n |-> v.n, d |-> v.d]
                 [] v.t = "null" -> Num(0)
                 [] v.t \in {"inf", "ninf", "nan"} -> v
                 [] v.t = "huge" -> PosInf
                 [] OTHER -> NaN

Sign(v) == CASE v.t = "inf" -> 1
             [] v.t = "ninf" -> -1
             [] v.t = "num" -> (IF v.n > 0 THEN 1 ELSE IF v.n < 0 THEN -1 ELSE 0)
             [] OTHER -> 0

Signed(s) == IF s > 0 THEN PosInf ELSE NegInf

Neg(v) == CASE v.t = "num" -> [v EXCEPT !.n = 0 - v.n]
            [] v.t = "inf" -> NegInf
            [] v.t = "ninf" -> PosInf
            [] OTHER -> NaN

\* IEEE addition of two numbers (after ToNumber).
NumAdd(a, b) ==
    CASE a.t = "nan" \/ b.t = "nan" -> NaN
      [] a.t = "num" /\ b.t = "num" ->
            [t |-> "num", n |-> a.n * b.d + b.n * a.d, d |-> a.d * b.d]
      [] a.t = "num" -> b
      [] b.t = "num" -> a
      [] a.t = b.t -> a
      [] OTHER -> NaN

\* IEEE multiplication: Infinity * 0 is NaN.
NumMul(a, b) ==
    CASE a.t = "nan" \/ b.t = "nan" -> NaN
      [] a.t = "num" /\ b.t = "num" ->
            [t |-> "num", n |-> a.n * b.n, d |-> a.d * b.d]
      [] Sign(a) = 0 \/ Sign(b) = 0 -> NaN
      [] OTHER -> Signed(Sign(a) * Sign(b))

\* IEEE division: x / 0 is +-Infinity, 0 / 0 and Infinity / Infinity are NaN.
NumDiv(a, b) ==
    CASE a.t = "nan" \/ b.t = "nan" -> NaN
      [] a.t = "num" /\ b.t = "num" ->
            IF b.n = 0
            THEN (IF a.n = 0 THEN NaN ELSE Signed(Sign(a)))
            ELSE IF b.n > 0
                 THEN [t |-> "num", n |-> a.n * b.d, d |-> a.d * b.n]
                 ELSE [t |-> "num", n |-> 0 - a.n * b.d, d |-> 0 - a.d * b.n]
      [] a.t = "num" -> Num(0)
      [] b.t = "num" -> IF b.n = 0 THEN a ELSE Signed(Sign(a) * Sign(b))
      [] OTHER -> NaN

\* a * b as the code writes it: the operands go through ToNumber.
JsMul(a, b) == NumMul(ToNumber(a), ToNumber(b))

\* a > b on numbers: false when either is NaN.
JsGt(a, b) ==
    LET x == ToNumber(a)
        y == ToNumber(b)
    IN  CASE x.t = "nan" \/ y.t = "nan" -> FALSE
          [] x.t = "num" /\ y.t = "num" -> x.n * y.d > y.n * x.d
          [] x.t = "inf" -> y.t # "inf"
          [] y.t = "ninf" -> x.t # "ninf"
          [] OTHER -> FALSE

\* a === b on numbers: NaN equals nothing.
NumEq(a, b) ==
    CASE a.t = "nan" \/ b.t = "nan" -> FALSE
      [] a.t = "num" /\ b.t = "num" -> a.n * b.d = b.n * a.d
      [] OTHER -> a.t = b.t


(***************************************************************************)
(* Array helpers (Array.prototype.map / reduce / slice / reverse / sort).  *)
(***************************************************************************)
RECURSIVE SumSeq(_, _)
\* vals.reduce((sum, x) => sum + x, acc), left to right
SumSeq(vals, acc) ==
    IF vals = <<>> THEN acc ELSE SumSeq(Tail(vals), NumAdd(acc, Head(vals)))

\* arr.slice(0, k)
Take(arr, k) == SubSeq(arr, 1, IF Len(arr) < k THEN Len(arr) ELSE k)

\* The last element of arr whose symbol is sym (an object or a Map built by
\* assigning the entries in order keeps the last one), <<>> when there is none.
LastWith(arr, sym) ==
    LET idx == {i \in 1..Len(arr) : arr[i].symbol = sym}
    IN  IF idx = {} THEN <<>>
        ELSE <<arr[CHOOSE i \in idx : \A j \in idx : j <= i]>>
\* arr.find(x => x.symbol === sym): the first one.
FirstWith(arr, sym) ==
    LET idx == {i \in 1..Len(arr) : arr[i].symbol = sym}
    IN  IF idx = {} THEN <<>>
        ELSE <<arr[CHOOSE i \in idx : \A j \in idx : i <= j]>>

\* arr.sort((a, b) => key(b) - key(a)), keys[i] the key of arr[i]: each
\* index is placed into the index list sorted by key descending, after the
\* indices of equal key (Array.prototype.sort is stable).
SortDescBy(arr, keys) ==
    LET RECURSIVE InsertDesc(_, _)
        InsertDesc(sorted, i) ==
            IF sorted = <<>> THEN <<i>>
            ELSE IF JsGt(keys[i], keys[Head(sorted)])
                 THEN <<i>> \o sorted
                 ELSE <<Head(sorted)>> \o InsertDesc(Tail(sorted), i)
        RECURSIVE SortedIndices(_, _)
        SortedIndices(i, acc) ==
            IF i > Len(keys) THEN acc
            ELSE SortedIndices(i + 1, InsertDesc(acc, i))
        perm == SortedIndices(1, <<>>)
    IN  [i \in 1..Len(arr) |-> arr[perm[i]]]
\* arr.sort((a, b) => b.pnl - a.pnl)
SortByPnlDesc(arr) == SortDescBy(arr, [i \in 1..Len(arr) |-> arr[i].pnl])

(***************************************************************************)
(* The versions of the handler and what each one fetches.                  *)
(***************************************************************************)
Versions == {"server_a", "server_b", "part_000", "part_001", "part_002",
             "part_003", "part_004", "part_005", "part_006", "part_007"}
\* if (!apiKey || !secretKey) return res.status(500)... opens the handler
KeyChecked == {"server_a", "part_000", "part_001", "part_002", "part_006"}
\* the versions built on crypto.createHmac and the contract-size map
ContractVersions == {"server_b", "part_003", "part_004", "part_005", "part_007"}
\* the versions whose makeRequest never rejects and carries the abort timer
TimeoutVersions == {"server_a", "part_006"}
\* the versions that throw unless every body has success true
SuccessChecked == {"server_b", "part_004", "part_007"}

Fetches == {"assets", "positions", "history", "ticker", "detail"}
SignedFetches == {"assets", "positions", "history"}

\* The fetches of a version in the order the handler starts them.
Plan(v) ==
    CASE v \in TimeoutVersions -> <<"ticker", "assets", "positions", "history">>
      [] v \in ContractVersions -> <<"assets", "positions", "history", "ticker", "detail">>
      [] v = "part_000" -> <<"assets", "ticker">>
      [] v = "part_001" -> <<"assets", "positions", "ticker">>
      [] v = "part_002" -> <<"assets", "positions", "history">>

\* await Promise.all([...]) against one await per fetch
Parallel(v) == v \in TimeoutVersions \cup ContractVersions

Path(v, f) ==
    CASE f = "assets" -> "/api/v1/private/account/assets"
      [] f = "positions" -> "/api/v1/private/position/open_positions"
      [] f = "history" -> (IF v \in ContractVersions
                           THEN "/api/v1/private/order/list/history_orders"
                           ELSE "/api/v1/private/order/list_history_orders")
      [] f = "ticker" -> "/api/v1/contract/ticker"
      [] f = "detail" -> "/api/v1/contract/detail"

\* new URLSearchParams({ page_size: 200 }).toString(), or the literal the
\* contract versions pass; the other calls have no parameters.
QueryString(v, f) == IF f = "history" THEN "page_size=200" ELSE ""

\* A makeRequest that posts the history query.
MethodPostsHistory(v, f) == IF f = "history" THEN "POST" ELSE "GET"
\* The method every call site passes or makeRequest hard-codes; a fetch(url)
\* without options is a GET.
Method(v, f) == "GET"

\* CryptoJS.HmacSHA256(msg, key).toString(Hex) and
\* crypto.createHmac('sha256', key).update(msg).digest('hex'): the same
\* function, kept symbolic (no two inputs share a digest).
HmacSHA256(msg, key) == <<"hmac-sha256", key, msg>>

\* process.env.X of a variable that is not set
Unset == "undefined"


(***************************************************************************)
(* What a fetch can bring back, and what each version's helper makes of it.*)
(*   ok       HTTP 200, {success: true, code: 0, data: <the exchange data>}*)
(*   garbled  HTTP 200, {success: true, code: 0, data: [null]}             *)
(*   apierr   HTTP 200, {success: false, code: <non-zero>, msg}            *)
(*   http     a non-OK status with a JSON error body {success: false, ...} *)
(*   badjson  HTTP 200 with a body that is not JSON                        *)
(*   neterr   fetch rejects (DNS, connection reset)                        *)
(*   timeout  the 30 s timer fires first                                   *)
(***************************************************************************)
Outcomes == {"ok", "garbled", "apierr", "http", "badjson", "neterr", "timeout"}

\* Only the signed calls carry a timer: the AbortController of
\* TimeoutVersions, the timeout: 30000 option of ContractVersions.
RawOutcomes(v, f) ==
    IF f \in SignedFetches /\ v \in TimeoutVersions \cup ContractVersions
    THEN Outcomes ELSE Outcomes \ {"timeout"}

\* A helper's result: st is "val" (the promise fulfilled with an object:
\* success, and data when hasData; data is [null] when hasNull; paged when
\* data is {resultList: items} rather than items) or "rej" (it rejected with
\* an Error whose message is err).  "none": not started; "pending": in flight.
\* timer: the setTimeout of the call has been neither cleared nor forgotten.
NoResult ==
    [st |-> "none", success |-> FALSE, hasData |-> FALSE, hasNull |-> FALSE,
     paged |-> FALSE, items |-> <<>>, err |-> "", timer |-> FALSE]
Pending == [NoResult EXCEPT !.st = "pending"]
Rejected(msg) == [NoResult EXCEPT !.st = "rej", !.err = msg]
Failure(msg) == [NoResult EXCEPT !.st = "val", !.err = msg]
Body200(o, items, paged) ==
    [st |-> "val", success |-> TRUE, hasData |-> TRUE, hasNull |-> (o = "garbled"),
     paged |-> paged, items |-> (IF o = "garbled" THEN <<>> ELSE items), err |-> "",
     timer |-> FALSE]

\* The message of the Error a failed signed call of TimeoutVersions ends with.
SafeError(o) ==
    CASE o = "timeout" -> "Request timed out"
      [] o = "http" -> "MEXC request failed with status"
      [] o = "apierr" -> "MEXC API Error"
      [] o = "badjson" -> "Unexpected token"
      [] OTHER -> "network error"

\* A makeRequest whose catch lets the abort through.
MakeRequestAbortRethrown(o, items, paged) ==
    CASE o \in {"ok", "garbled"} -> Body200(o, items, paged)
      [] o = "timeout" -> Rejected("The operation was aborted")
      [] OTHER -> Failure(SafeError(o))

\* A makeRequest without the catch: every failure rejects.
MakeRequestRethrowing(o, items, paged) ==
    IF o \in {"ok", "garbled"} THEN Body200(o, items, paged) ELSE Rejected(SafeError(o))

\* makeRequest of server.js (first) and part_006: every failure is caught
\* and returned as {success: false, error}.
SafeMakeRequest(o, items, paged) ==
    IF o \in {"ok", "garbled"} THEN Body200(o, items, paged) ELSE Failure(SafeError(o))

\* getAllTickers: the map of the tickers, {} on any failure, a throw inside
\* the reduce over [null] included.
GetAllTickers(o, items) ==
    IF o = "ok" THEN Body200(o, items, FALSE) ELSE [Failure("") EXCEPT !.hasData = TRUE]

\* makeRequest of part_000: a non-OK status throws; the body is returned as
\* parsed, whatever its success flag.
MakeRequest000(o, items, paged) ==
    CASE o \in {"ok", "garbled"} -> Body200(o, items, paged)
      [] o = "apierr" -> Failure("")
      [] o = "http" -> Rejected("HTTP Error")
      [] o = "badjson" -> Rejected("Unexpected token")
      [] OTHER -> Rejected("network error")

\* makeRequest of part_001: returns the parsed body, and
\* {success: false, code: 9999, msg} when anything throws.
MakeRequest001(o, items, paged) ==
    CASE o \in {"ok", "garbled"} -> Body200(o, items, paged)
      [] o \in {"apierr", "http"} -> Failure("")
      [] o = "badjson" -> Failure("Unexpected token")
      [] OTHER -> Failure("network error")

\* makeRequest of part_002: throws on every failure.  The catch (e) around
\* JSON.parse also catches the API error thrown inside the try, and rethrows
\* it as a parse failure.
MakeRequest002(o, items, paged) ==
    CASE o \in {"ok", "garbled"} -> Body200(o, items, paged)
      [] o = "http" -> Rejected("MEXC request failed with status")
      [] o = "badjson" -> Rejected("Failed to parse JSON from MEXC")
      [] o = "apierr" -> Rejected("Failed to parse JSON from MEXC")
      [] OTHER -> Rejected("network error")

\* makeRequest of ContractVersions: a non-OK status, a body that is not JSON,
\* a network error and the timeout reject; a parsed body is returned as is.
MakeRequestContract(o, items, paged) ==
    CASE o \in {"ok", "garbled"} -> Body200(o, items, paged)
      [] o = "apierr" -> Failure("")
      [] o = "http" -> Rejected("Request failed with status")
      [] o = "badjson" -> Rejected("Unexpected token")
      [] o = "timeout" -> Rejected("network timeout")
      [] OTHER -> Rejected("network error")

\* fetch(url).then(r => r.json()): the parsed body whatever the status.
PublicFetch(o, items) ==
    CASE o \in {"ok", "garbled"} -> Body200(o, items, FALSE)
      [] o \in {"apierr", "http"} -> Failure("")
      [] o = "badjson" -> Rejected("Unexpected token")
      [] OTHER -> Rejected("network error")

\* const timeout = setTimeout(() => controller.abort(), REQUEST_TIMEOUT) of
\* the makeRequest of TimeoutVersions; no other helper sets a timer.
SetsTimeout(v, f) == f \in SignedFetches /\ v \in TimeoutVersions

\* finally { clearTimeout(timeout) }: on the return of the try, on either
\* return of the catch.
ClearsTimeout(v, f, o) == SetsTimeout(v, f)

\* What the helper version v uses for fetch f returns on outcome o.
Helper(v, f, o, items, paged) ==
    CASE f \in SignedFetches /\ v \in TimeoutVersions -> SafeMakeRequest(o, items, paged)
      [] f \in SignedFetches /\ v \in ContractVersions -> MakeRequestContract(o, items, paged)
      [] f \in SignedFetches /\ v = "part_000" -> MakeRequest000(o, items, paged)
      [] f \in SignedFetches /\ v = "part_001" -> MakeRequest001(o, items, paged)
      [] f \in SignedFetches /\ v = "part_002" -> MakeRequest002(o, items, paged)
      [] f = "ticker" /\ v \in TimeoutVersions -> GetAllTickers(o, items)
      [] OTHER -> PublicFetch(o, items)


(***************************************************************************)
(* The response bodies.  One record shape serves every version; a field a  *)
(* version does not send is Undef or <<>>.  A listed position is           *)
(* [symbol, positionType, openPrice, currentPrice, unrealizedPNL,          *)
(* pnlPercentage] (entryPrice and pnl in ContractVersions), a trade is     *)
(* [symbol, pnl] (profit in ContractVersions).  leverage and the formatted *)
(* date are copied from the exchange record and are left out.              *)
(***************************************************************************)
EmptyBody ==
    [totalBalance |-> Undef, assetsValue |-> Undef, assetsCount |-> Undef,
     openPositionsCount |-> Undef, openPositions |-> <<>>,
     bestTrades |-> <<>>, worstTrades |-> <<>>, assets |-> <<>>]

\* res.json(body) and res.status(500).json({error})
Ok200(body) == [status |-> 200, body |-> body, error |-> ""]
Error500(msg) == [status |-> 500, body |-> EmptyBody, error |-> msg]

\* arr.find(a => a.currency === 'USDT')
FindUsdt(items) ==
    LET idx == {i \in 1..Len(items) : items[i].currency = "USDT"}
    IN  IF idx = {} THEN <<>>
        ELSE <<items[CHOOSE i \in idx : \A j \in idx : i <= j]>>

\* A direction that takes every position for a Long.
DirectionAlwaysLong(type) == Num(1)
\* pos.positionType === 1 ? 1 : -1
PnlDirection(type) == IF type = 1 THEN Num(1) ELSE Num(0 - 1)
\* pos.positionType === 1 ? 'Long' : 'Short'
PositionTypeName(type) == IF type = 1 THEN "Long" ELSE "Short"

\* The first three trades as the exchange lists them.
FirstTrades(closedTrades) == Take(closedTrades, 3)

\* closedTrades.sort(desc); slice(0, 3); filter(pnl < 0).slice(-3).reverse()
BestTrades(closedTrades) == Take(SortByPnlDesc(closedTrades), 3)
WorstTrades(closedTrades) ==
    LET IsLoss(t) == JsGt(Num(0), t.pnl)
        losing == SelectSeq(SortByPnlDesc(closedTrades), IsLoss)
        last3 == SubSeq(losing, (IF Len(losing) < 3 THEN 0 ELSE Len(losing) - 3) + 1,
                        Len(losing))
    IN  [i \in 1..Len(last3) |-> last3[Len(last3) + 1 - i]]

(***************************************************************************)
(* server.js, first handler (lines 55-139), on the four results r.         *)
(***************************************************************************)
AssetsUsableA(r) == r["assets"].success /\ r["assets"].hasData
PositionsUsableA(r) ==
    /\ r["positions"].success /\ r["positions"].hasData
    /\ (r["positions"].hasNull \/ Len(r["positions"].items) > 0)
HistoryUsableA(r) ==
    r["history"].success /\ r["history"].hasData /\ r["history"].paged

AvailableBalanceA(r) ==
    LET usdtAsset == IF AssetsUsableA(r) THEN FindUsdt(r["assets"].items) ELSE <<>>
    IN  IF usdtAsset = <<>> THEN Num(0)
        ELSE ParseFloat(JsOr(usdtAsset[1].availableBalance, Num(0)))

PositionsA(r) == IF PositionsUsableA(r) THEN r["positions"].items ELSE <<>>

\* data.reduce((sum, pos) => sum + parseFloat(pos.im || 0), 0)
TotalMarginInPositionsA(r) ==
    SumSeq([i \in 1..Len(PositionsA(r)) |->
               ParseFloat(JsOr(PositionsA(r)[i].im, Num(0)))], Num(0))

CurrentPriceA(r, pos) ==
    LET ticker == LastWith(r["ticker"].items, pos.symbol)
    IN  IF ticker = <<>> THEN Num(0) ELSE ParseFloat(ticker[1].lastPrice)

\* (currentPrice > 0) ? (currentPrice - openPrice) * positionSize
\*                      * contractSize * pnlDirection : 0
CalculatedPNLA(r, pos) ==
    LET currentPrice == CurrentPriceA(r, pos)
    IN  IF JsGt(currentPrice, Num(0))
        THEN NumMul(NumMul(NumMul(NumAdd(currentPrice, Neg(ParseFloat(pos.holdAvgPrice))),
                                  ParseFloat(pos.holdVol)),
                           ParseFloat(pos.contractSize)),
                    PnlDirection(pos.positionType))
        ELSE Num(0)

\* for (const pos of data) { ... openPositions.push({...}) }
OpenPositionsA(r) ==
    LET margin(pos) == JsOr(ParseFloat(pos.im), Num(1))
        OpenPosition(pos) ==
            [symbol |-> pos.symbol,
             positionType |-> PositionTypeName(pos.positionType),
             openPrice |-> ParseFloat(pos.holdAvgPrice),
             currentPrice |-> CurrentPriceA(r, pos),
             unrealizedPNL |-> CalculatedPNLA(r, pos),
             pnlPercentage |->
                 NumMul(NumDiv(CalculatedPNLA(r, pos), margin(pos)), Num(100))]
    IN  [i \in 1..Len(PositionsA(r)) |-> OpenPosition(PositionsA(r)[i])]

TotalUnrealizedPNLA(r) ==
    SumSeq([i \in 1..Len(PositionsA(r)) |-> CalculatedPNLA(r, PositionsA(r)[i])], Num(0))

\* A total that leaves the unrealized PNL out.
TotalBalanceNoPnl(r) == NumAdd(AvailableBalanceA(r), TotalMarginInPositionsA(r))
\* availableBalance + totalMarginInPositions + totalUnrealizedPNL
TotalBalanceA(r) ==
    NumAdd(NumAdd(AvailableBalanceA(r), TotalMarginInPositionsA(r)), TotalUnrealizedPNLA(r))

\* resultList.filter(order => order.state === 3 && order.dealAvgPrice
\*   && order.openAvgPrice && order.vol && order.contractSize).map(...)
ClosedTradesA(r) ==
    LET IsClosed(order) ==
            /\ order.state = 3
            /\ Truthy(order.dealAvgPrice) /\ Truthy(order.openAvgPrice)
            /\ Truthy(order.vol) /\ Truthy(order.contractSize)
        ClosedTrade(order) ==
            [symbol |-> order.symbol,
             pnl |-> NumMul(NumMul(NumMul(NumAdd(ParseFloat(order.dealAvgPrice),
                                                 Neg(ParseFloat(order.openAvgPrice))),
                                          ParseFloat(order.vol)),
                                   ParseFloat(order.contractSize)),
                            PnlDirection(order.openType))]
        closed == IF HistoryUsableA(r) THEN SelectSeq(r["history"].items, IsClosed)
                  ELSE <<>>
    IN  [i \in 1..Len(closed) |-> ClosedTrade(closed[i])]

BodyA(r) ==
    [EmptyBody EXCEPT
        !.totalBalance = TotalBalanceA(r),
        !.assetsValue = TotalMarginInPositionsA(r),
        !.openPositionsCount = Num(Len(OpenPositionsA(r))),
        !.openPositions = OpenPositionsA(r),
        !.bestTrades = BestTrades(ClosedTradesA(r)),
        !.worstTrades = WorstTrades(ClosedTradesA(r))]

\* What the handler sends once Promise.all has resolved.  A property read
\* on a null element is the TypeError that reaches the catch.
RespondA(r) ==
    LET throws ==
            \/ AssetsUsableA(r) /\ r["assets"].hasNull
            \/ PositionsUsableA(r) /\ r["positions"].hasNull
            \/ HistoryUsableA(r) /\ r["history"].hasNull
    IN  IF throws THEN Error500("TypeError") ELSE Ok200(BodyA(r))


(***************************************************************************)
(* part_000 (lines 29-82): assets, then the ticker, one await each.        *)
(***************************************************************************)
\* What follows a fulfilled fetch f and throws before the next one starts.
StepThrows000(f, x) ==
    \/ ~x.success \/ ~x.hasData       \* the two "throw new Error" guards
    \/ x.hasNull                      \* b.availableBalance, ticker.symbol

\* accountAssets.data.filter(b => parseFloat(b.availableBalance) > 0)
\*   .map(asset => ...), with prices[`${asset.currency}_USDT`] the price of
\* the last ticker of that symbol
ProcessedAssets000(r) ==
    LET HasBalance(b) == JsGt(ParseFloat(b.availableBalance), Num(0))
        Price(currency) ==
            LET ticker == LastWith(r["ticker"].items, currency \o "_USDT")
            IN  IF ticker = <<>> THEN Undef ELSE ParseFloat(ticker[1].lastPrice)
        ProcessedAsset(asset) ==
            LET totalAmount == ParseFloat(asset.availableBalance)
            IN  [asset |-> asset.currency,
                 totalAmount |-> totalAmount,
                 value |-> IF asset.currency = "USDT" THEN totalAmount
                           ELSE IF Truthy(Price(asset.currency))
                                THEN NumMul(totalAmount, Price(asset.currency))
                                ELSE Num(0)]
        assets == SelectSeq(r["assets"].items, HasBalance)
    IN  [i \in 1..Len(assets) |-> ProcessedAsset(assets[i])]

Body000(r) ==
    LET processed == ProcessedAssets000(r)
        NotUsdt(a) == a.asset # "USDT"
        others == SelectSeq(processed, NotUsdt)
    IN  [EmptyBody EXCEPT
            !.totalBalance = SumSeq([i \in 1..Len(processed) |-> processed[i].value], Num(0)),
            !.assetsValue = SumSeq([i \in 1..Len(others) |-> others[i].value], Num(0)),
            !.assets = SortDescBy(processed, [i \in 1..Len(processed) |-> processed[i].value])]

(***************************************************************************)
(* part_001 (lines 33-62): the diagnostic run; the results are only logged.*)
(***************************************************************************)
\* res.json({ status: "Diagnostic run completed. Check server logs." })
Body001 == EmptyBody

(***************************************************************************)
(* part_002 (lines 41-98): assets, positions, history, one await each.     *)
(***************************************************************************)
Usable002(x) == x.success /\ x.hasData
HistoryUsable002(x) == x.success /\ x.hasData /\ x.paged

\* asset.availableBalance, pos.im, order.state read on a null element
StepThrows002(f, x) ==
    IF f = "history" THEN HistoryUsable002(x) /\ x.hasNull
    ELSE Usable002(x) /\ x.hasNull

\* assets.reduce((sum, asset) => sum + parseFloat(asset.availableBalance || 0), 0)
AvailableBalance002(r) ==
    LET assets == IF Usable002(r["assets"]) THEN r["assets"].items ELSE <<>>
    IN  SumSeq([i \in 1..Len(assets) |->
                   ParseFloat(JsOr(assets[i].availableBalance, Num(0)))], Num(0))

Positions002(r) == IF Usable002(r["positions"]) THEN r["positions"].items ELSE <<>>

TotalMarginInPositions002(r) ==
    SumSeq([i \in 1..Len(Positions002(r)) |->
               ParseFloat(JsOr(Positions002(r)[i].im, Num(0)))], Num(0))

\* positions.map(pos => ({...}))
OpenPositions002(r) ==
    LET OpenPosition(pos) ==
            [symbol |-> pos.symbol,
             positionType |-> PositionTypeName(pos.positionType),
             openPrice |-> ParseFloat(JsOr(pos.holdAvgPrice, Num(0))),
             currentPrice |-> ParseFloat(JsOr(pos.lastPrice, Num(0))),
             unrealizedPNL |-> ParseFloat(JsOr(pos.unrealizedPL, Num(0))),
             pnlPercentage |-> NumMul(NumDiv(ParseFloat(JsOr(pos.unrealizedPL, Num(0))),
                                             JsOr(ParseFloat(pos.im), Num(1))), Num(100))]
    IN  [i \in 1..Len(Positions002(r)) |-> OpenPosition(Positions002(r)[i])]

\* finalData.totalBalance: += availableBalance, += totalMarginInPositions
TotalBalance002(r) == NumAdd(AvailableBalance002(r), TotalMarginInPositions002(r))

\* resultList.filter(order => order.state === 3
\*   && typeof order.profit !== 'undefined').map(...)
ClosedTrades002(r) ==
    LET IsClosed(order) == order.state = 3 /\ order.profit.t # "undef"
        closed == IF HistoryUsable002(r["history"])
                  THEN SelectSeq(r["history"].items, IsClosed) ELSE <<>>
    IN  [i \in 1..Len(closed) |->
            [symbol |-> closed[i].symbol, pnl |-> ParseFloat(closed[i].profit)]]

Body002(r) ==
    [EmptyBody EXCEPT
        !.totalBalance = TotalBalance002(r),
        !.assetsValue = (IF Usable002(r["positions"])
                         THEN TotalMarginInPositions002(r) ELSE Num(0)),
        !.assetsCount = (IF Usable002(r["assets"])
                         THEN Num(IF r["assets"].hasNull THEN 1 ELSE Len(r["assets"].items))
                         ELSE Num(0)),
        !.openPositions = OpenPositions002(r),
        !.bestTrades = BestTrades(ClosedTrades002(r)),
        !.worstTrades = WorstTrades(ClosedTrades002(r))]


(***************************************************************************)
(* ContractVersions: server.js second handler (277-324), part_003 (91-130),*)
(* part_004 (85-140), part_005 (90-183), part_007 (65-113), on the five    *)
(* results r of Promise.all.  Values are used as the JSON gives them.      *)
(***************************************************************************)
UnsuccessfulContract(v, r) ==
    v \in SuccessChecked /\ \E f \in Fetches : ~r[f].success

\* A handler that tests nothing and guards every read.
ThrowsNothingContract(v, r) == FALSE
\* What throws between Promise.all and res.json: the success test, and
\* reading .find / .map / .filter of an undefined data or a property of a
\* null element.  part_005 reads x.data || [], the others x.data;
\* positionsData.data.map runs unguarded in server.js and part_004, the
\* other versions test positionsData.data first; historyData.data.filter on
\* {resultList: [...]} is not a function.
ThrowsContract(v, r) ==
    LET DataThrows(x) == IF v = "part_005" THEN x.hasNull ELSE ~x.hasData \/ x.hasNull
        PositionsThrows(x) ==
            IF x.hasData THEN x.hasNull ELSE v \in {"server_b", "part_004"}
        HistoryThrows(x) ==
            IF x.hasData THEN x.paged \/ x.hasNull
            ELSE v \in {"server_b", "part_004", "part_007"}
    IN  \/ UnsuccessfulContract(v, r)
        \/ DataThrows(r["assets"])
        \/ PositionsThrows(r["positions"])
        \/ DataThrows(r["ticker"])
        \/ DataThrows(r["detail"])
        \/ HistoryThrows(r["history"])

\* tickersMap.get(pos.symbol) || 0, tickersMap being
\* new Map(list.map(t => [t.symbol, t.lastPrice]))
CurrentPriceContract(r, pos) ==
    LET t == LastWith(r["ticker"].items, pos.symbol)
    IN  JsOr(IF t = <<>> THEN Undef ELSE t[1].lastPrice, Num(0))
\* contractSizeMap.get(pos.symbol) || 1, contractSizeMap being
\* new Map(list.map(c => [c.symbol, c.contractSize]))
ContractSizeContract(r, pos) ==
    LET c == LastWith(r["detail"].items, pos.symbol)
    IN  JsOr(IF c = <<>> THEN Undef ELSE c[1].contractSize, Num(1))

\* (currentPrice - pos.holdAvgPrice) * pos.holdVol * contractSize
\*   * (pos.positionType === 1 ? 1 : -1)
PnlContract(r, pos) ==
    JsMul(JsMul(JsMul(NumAdd(ToNumber(CurrentPriceContract(r, pos)),
                             Neg(ToNumber(pos.holdAvgPrice))),
                      pos.holdVol),
                ContractSizeContract(r, pos)),
          PnlDirection(pos.positionType))

\* pos.im > 0 ? (pnl / pos.im) * 100 : 0, and (pnl / pos.im) * 100 in part_004
PnlPercentageContract(v, r, pos) ==
    IF v = "part_004" \/ JsGt(pos.im, Num(0))
    THEN JsMul(NumDiv(ToNumber(PnlContract(r, pos)), ToNumber(pos.im)), Num(100))
    ELSE Num(0)

\* positionsData.data.map(pos => ({...}))
ProcessedPositions(v, r) ==
    LET ProcessedPosition(pos) ==
            [symbol |-> pos.symbol,
             positionType |-> PositionTypeName(pos.positionType),
             openPrice |-> pos.holdAvgPrice,
             currentPrice |-> CurrentPriceContract(r, pos),
             unrealizedPNL |-> PnlContract(r, pos),
             pnlPercentage |-> PnlPercentageContract(v, r, pos)]
    IN  [i \in 1..Len(r["positions"].items) |-> ProcessedPosition(r["positions"].items[i])]

\* historyData.data.filter(order => order.state === 3 && order.profit !== 0);
\* part_004 tests the state alone
ClosedTradesContract(v, r) ==
    LET IsClosed(order) ==
            /\ order.state = 3
            /\ (v = "part_004" \/ ~(order.profit.t = "num" /\ order.profit.n = 0))
        closed == SelectSeq(r["history"].items, IsClosed)
    IN  [i \in 1..Len(closed) |->
            [symbol |-> closed[i].symbol, pnl |-> JsOr(closed[i].profit, Num(0))]]

\* closedTrades.filter(t => t.profit > 0).sort((a, b) => b.profit - a.profit)
ProfitableTrades(closedTrades) ==
    LET IsProfit(t) == JsGt(t.pnl, Num(0))
    IN  SortByPnlDesc(SelectSeq(closedTrades, IsProfit))
\* closedTrades.filter(t => t.profit < 0).sort((a, b) => a.profit - b.profit)
LosingTrades(closedTrades) ==
    LET IsLoss(t) == JsGt(Num(0), t.pnl)
        losing == SelectSeq(closedTrades, IsLoss)
    IN  SortDescBy(losing, [i \in 1..Len(losing) |-> Neg(ToNumber(losing[i].pnl))])

BodyContract(v, r) ==
    LET usdtAsset == FindUsdt(r["assets"].items)
    IN  [EmptyBody EXCEPT
            !.totalBalance = (IF usdtAsset = <<>> THEN Num(0) ELSE usdtAsset[1].equity),
            !.assetsValue = (IF usdtAsset = <<>> THEN Num(0) ELSE usdtAsset[1].positionMargin),
            !.openPositionsCount = Num(Len(r["positions"].items)),
            !.openPositions = ProcessedPositions(v, r),
            !.bestTrades = Take(ProfitableTrades(ClosedTradesContract(v, r)), 3),
            !.worstTrades = Take(LosingTrades(ClosedTradesContract(v, r)), 3)]

RespondContract(v, r) ==
    IF ThrowsContract(v, r)
    THEN Error500(IF UnsuccessfulContract(v, r)
                  THEN "One or more API calls were unsuccessful." ELSE "TypeError")
    ELSE Ok200(BodyContract(v, r))


(***************************************************************************)
(* part_006 (lines 81-160).  The handler awaits getContractDetails once    *)
(* per position, in order, and once per closed order, all started          *)
(* together; posDetails and ordDetails are what those calls returned:      *)
(* <<>> for null, <<details>> for the exchange's contract record.          *)
(***************************************************************************)
\* const num = parseFloat(value); return isNaN(num) ? 0 : num;
safeParseFloat(value) ==
    LET num == ParseFloat(value) IN IF num.t = "nan" THEN Num(0) ELSE num

AssetsUsable006(r) == r["assets"].success /\ r["assets"].hasData
PositionsUsable006(r) == r["positions"].success /\ r["positions"].hasData
HistoryUsable006(r) ==
    r["history"].success /\ r["history"].hasData /\ r["history"].paged

Positions006(r) == IF PositionsUsable006(r) THEN r["positions"].items ELSE <<>>

\* resultList.filter(order => order.state === 3 && order.dealAvgPrice
\*   && order.openAvgPrice && order.vol)
ClosedOrders006(r) ==
    LET IsClosed(order) ==
            /\ order.state = 3
            /\ Truthy(order.dealAvgPrice) /\ Truthy(order.openAvgPrice)
            /\ Truthy(order.vol)
    IN  IF HistoryUsable006(r) THEN SelectSeq(r["history"].items, IsClosed) ELSE <<>>

\* contractDetails ? safeParseFloat(contractDetails.contractSize) : 1
ContractSize006(details) ==
    IF details = <<>> THEN Num(1) ELSE safeParseFloat(details[1].contractSize)

CurrentPrice006(r, pos) ==
    LET ticker == LastWith(r["ticker"].items, pos.symbol)
    IN  IF ticker = <<>> THEN Num(0) ELSE safeParseFloat(ticker[1].lastPrice)

CalculatedPNL006(r, pos, details) ==
    LET currentPrice == CurrentPrice006(r, pos)
    IN  IF JsGt(currentPrice, Num(0))
        THEN NumMul(NumMul(NumMul(NumAdd(currentPrice, Neg(safeParseFloat(pos.holdAvgPrice))),
                                  safeParseFloat(pos.holdVol)),
                           ContractSize006(details)),
                    PnlDirection(pos.positionType))
        ELSE Num(0)

OpenPosition006(r, pos, details) ==
    LET margin == JsOr(safeParseFloat(pos.im), Num(1))
    IN  [symbol |-> pos.symbol,
         positionType |-> PositionTypeName(pos.positionType),
         openPrice |-> safeParseFloat(pos.holdAvgPrice),
         currentPrice |-> CurrentPrice006(r, pos),
         unrealizedPNL |-> CalculatedPNL006(r, pos, details),
         pnlPercentage |->
             NumMul(NumDiv(CalculatedPNL006(r, pos, details), margin), Num(100))]

\* openPositions.reduce((sum, pos) => { const originalPos =
\*   data.find(p => p.symbol === pos.symbol);
\*   return sum + (originalPos ? safeParseFloat(originalPos.im) : 0); }, 0)
TotalMarginInPositions006(r, openPositions) ==
    SumSeq([i \in 1..Len(openPositions) |->
               LET originalPos == FirstWith(r["positions"].items, openPositions[i].symbol)
               IN  IF originalPos = <<>> THEN Num(0)
                   ELSE safeParseFloat(originalPos[1].im)], Num(0))

\* The body, from the four results, the positions pushed so far and the
\* details each closed order's lookup returned.
Body006(r, openPositions, ordDet) ==
    LET usdtAsset == IF AssetsUsable006(r) THEN FindUsdt(r["assets"].items) ELSE <<>>
        ClosedTrade(order, details) ==
            [symbol |-> order.symbol,
             pnl |-> NumMul(NumMul(NumMul(NumAdd(safeParseFloat(order.dealAvgPrice),
                                                 Neg(safeParseFloat(order.openAvgPrice))),
                                          safeParseFloat(order.vol)),
                                   ContractSize006(details)),
                            PnlDirection(order.openType))]
        closed == ClosedOrders006(r)
        closedTrades == [j \in 1..Len(closed) |-> ClosedTrade(closed[j], ordDet[j])]
    IN  [EmptyBody EXCEPT
            !.totalBalance = (IF usdtAsset = <<>> THEN Num(0)
                              ELSE safeParseFloat(usdtAsset[1].equity)),
            !.assetsValue = TotalMarginInPositions006(r, openPositions),
            !.openPositionsCount = Num(Len(openPositions)),
            !.openPositions = openPositions,
            !.bestTrades = BestTrades(closedTrades),
            !.worstTrades = WorstTrades(closedTrades)]


(***************************************************************************)
(* State.                                                                  *)
(***************************************************************************)
VARIABLES
    ver,            \* the version of the server that is running
    apiKey,         \* process.env.MEXC_API_KEY, Unset when not set
    secretKey,      \* process.env.MEXC_SECRET_KEY, Unset when not set
    worlds,         \* the states the exchange may be in at a later request
    net,            \* what a fetch may end in (a subset of Outcomes)
    exch,           \* the exchange: assets, positions, orders, tickers, contracts
    now,            \* Date.now()
    pc,             \* where the handler of the current request stands
    fl,             \* the result of each fetch of the current request
    wire,           \* every request sent to the exchange so far
    res,            \* the responses sent to the current request
    contractDetailsCache,  \* part_006: symbol -> <<>> (absent) or <<details>>
    posIdx,         \* part_006: positions handled by the for loop so far
    openPositions,  \* part_006: let openPositions = []
    ordDetails,     \* part_006: the lookups of closedTradesPromises
    cacheAtStart,   \* contractDetailsCache when the current request arrived
    lost,           \* part_006: the contract lookups of this request that failed
    budget,         \* requests still to come after the current one
    hist,           \* the answered requests: what each received and sent
    portfolio_history,  \* part_005: the timestamp of each row of the table, in minutes
    logging,        \* part_005: where each request stands in "Log equity to the database"
    minute          \* part_005: new Date() and NOW(), in minutes

vars == <<ver, apiKey, secretKey, worlds, net, exch, now, pc, fl, wire, res,
          contractDetailsCache, posIdx, openPositions, ordDetails, cacheAtStart,
          lost, budget, hist, portfolio_history, logging, minute>>

deployment == <<ver, apiKey, secretKey, worlds, net, portfolio_history, logging, minute>>
lookups == <<contractDetailsCache, posIdx, openPositions, ordDetails>>
session == <<cacheAtStart, lost, budget>>

\* Date.now() takes the values 0..MaxClock.
MaxClock == 1

\* The test with && in the place of ||.
BothKeysMissing == apiKey = Unset /\ secretKey = Unset
\* if (!apiKey || !secretKey)
KeysMissing == apiKey = Unset \/ secretKey = Unset

\* A payload that leaves the parameters out.
SignaturePayloadNoQuery(v, ts, qs) == apiKey \o ts
\* `${apiKey}${timestamp}${queryString}`, apiKey + timestamp + params; the
\* makeRequest of part_000 takes no parameters and signs apiKey + timestamp.
SignaturePayload(v, ts, qs) ==
    IF v = "part_000" THEN apiKey \o ts ELSE apiKey \o ts \o qs

\* fetch(url) of a public endpoint
PublicRequest(path, qs) ==
    [method |-> "GET",
     url |-> path \o (IF qs # "" THEN "?" \o qs ELSE ""),
     path |-> path, query |-> qs, signed |-> FALSE,
     ApiKey |-> "", RequestTime |-> "", Signature |-> <<>>]

\* The request handed to fetch for f at time ts: by makeRequest, with the
\* three headers, for a signed endpoint.  part_002 always writes the "?"
\* after the endpoint, the others when there are parameters.
Request(v, f, ts) ==
    LET qs == QueryString(v, f)
    IN  IF f \in SignedFetches
        THEN [method |-> Method(v, f),
              url |-> Path(v, f) \o (IF v = "part_002" \/ qs # "" THEN "?" \o qs ELSE ""),
              path |-> Path(v, f),
              query |-> qs,
              signed |-> TRUE,
              ApiKey |-> apiKey,
              RequestTime |-> ToString(ts),
              Signature |-> HmacSHA256(SignaturePayload(v, ToString(ts), qs), secretKey)]
        ELSE PublicRequest(Path(v, f), qs)

\* const timestamp = Date.now(): the clock never goes back.  The calls of
\* one Promise.all run back to back, within the same millisecond.
Stamps(t0) == t0..MaxClock

\* crypto.createHmac('sha256', undefined) throws before fetch is called.
SigningThrows(v, f) ==
    f \in SignedFetches /\ v \in ContractVersions /\ secretKey = Unset

InPlan(v, f) == \E i \in 1..Len(Plan(v)) : Plan(v)[i] = f

StepThrows(v, f, x) ==
    CASE v = "part_000" -> StepThrows000(f, x)
      [] v = "part_002" -> StepThrows002(f, x)
      [] OTHER -> FALSE

\* The handler threw or an awaited promise rejected: control is in the catch.
Caught(v, r) ==
    \E f \in Fetches :
        \/ r[f].st = "rej"
        \/ ~Parallel(v) /\ r[f].st = "val" /\ StepThrows(v, f, r[f])

CaughtMessage(v, r) ==
    LET i == CHOOSE i \in 1..Len(Plan(v)) :
                 /\ r[Plan(v)[i]].st = "rej" \/ (r[Plan(v)[i]].st = "val"
                                                 /\ StepThrows(v, Plan(v)[i], r[Plan(v)[i]]))
                 /\ \A j \in 1..(i - 1) : r[Plan(v)[j]].st # "rej"
    IN  IF r[Plan(v)[i]].st = "rej" THEN r[Plan(v)[i]].err ELSE "TypeError"

\* A handler that goes on with the first result to arrive.
FirstFulfilled(v, r) == \E i \in 1..Len(Plan(v)) : r[Plan(v)[i]].st = "val"
\* await Promise.all([...]) resolves once every promise is fulfilled.
AllFulfilled(v, r) == \A i \in 1..Len(Plan(v)) : r[Plan(v)[i]].st = "val"

\* What a version other than part_006 sends when its fetches are in.
Respond(v, r) ==
    CASE v = "server_a" -> RespondA(r)
      [] v \in ContractVersions -> RespondContract(v, r)
      [] v = "part_000" -> Ok200(Body000(r))
      [] v = "part_001" -> Ok200(Body001)
      [] v = "part_002" -> Ok200(Body002(r))

\* The record kept of an answered request: the requests still to come when
\* it was answered, the results of its fetches, the exchange it was made
\* to and the contract records that exchange was serving, the contract
\* lookups that failed, the cache it found, and the response.
Answered(response) ==
    [n |-> budget, seen |-> fl, exch |-> exch, contracts |-> exch.contracts,
     lost |-> lost, cache |-> cacheAtStart, response |-> response]

\* An openPositions that lives outside the handler and is never emptied.
KeptOpenPositions(previous) == previous
\* let openPositions = [] (and the other locals) at the top of the handler
FreshOpenPositions(previous) == <<>>

NoFetches == [f \in Fetches |-> NoResult]

(***************************************************************************)
(* The handler, one action per step between two awaits.                    *)
(***************************************************************************)
\* A catch block that logs and sends nothing.
CatchLogsOnly(msg) == <<>>
\* What the catch block sends: res.status(500).json({error: ...})
CatchResponse(msg) == <<Error500(msg)>>

\* if (!apiKey || !secretKey) return res.status(500).json({error})
RejectMissingKeys ==
    /\ pc = "recv"
    /\ ver \in KeyChecked
    /\ KeysMissing
    /\ res' = Append(res, Error500("API keys not set"))
    /\ hist' = hist \cup {Answered(Error500("API keys not set"))}
    /\ pc' = "done"
    /\ UNCHANGED <<deployment, exch, now, fl, wire, lookups, session>>

\* await Promise.all([...]): every call runs to its fetch before the await.
StartAll ==
    /\ pc = "recv"
    /\ Parallel(ver)
    /\ ver \in KeyChecked => ~KeysMissing
    /\ fl' = [f \in Fetches |->
                IF ~InPlan(ver, f) THEN NoResult
                ELSE IF SigningThrows(ver, f) THEN Rejected("ERR_INVALID_ARG_TYPE")
                ELSE [Pending EXCEPT !.timer = SetsTimeout(ver, f)]]
    /\ \E ts \in Stamps(now) :
          /\ wire' = wire \cup
                 {Request(ver, f, ts) :
                     f \in {g \in Fetches : InPlan(ver, g) /\ ~SigningThrows(ver, g)}}
          /\ now' = ts
    /\ pc' = "await"
    /\ UNCHANGED <<deployment, exch, res, lookups, session, hist>>

\* const x = await makeRequest(...): the next fetch of a version that awaits
\* them one by one, once the code before it has run without throwing.
StartNext ==
    /\ pc \in {"recv", "await"}
    /\ ~Parallel(ver)
    /\ ver \in KeyChecked => ~KeysMissing
    /\ ~Caught(ver, fl)
    /\ \E i \in 1..Len(Plan(ver)) :
          /\ fl[Plan(ver)[i]].st = "none"
          /\ \A j \in 1..(i - 1) : fl[Plan(ver)[j]].st = "val"
          /\ fl' = [fl EXCEPT ![Plan(ver)[i]] =
                       [Pending EXCEPT !.timer = SetsTimeout(ver, Plan(ver)[i])]]
          /\ \E ts \in Stamps(now) :
                /\ wire' = wire \cup {Request(ver, Plan(ver)[i], ts)}
                /\ now' = ts
    /\ pc' = "await"
    /\ UNCHANGED <<deployment, exch, res, lookups, session, hist>>

\* A fetch in flight settles while the handler awaits it.  The continuation
\* of a rejected await runs before any other fetch is heard of, and no one
\* listens to what settles after the answer.
Settle ==
    /\ pc = "await"
    /\ ~Caught(ver, fl)
    /\ \E f \in Fetches :
          LET data == CASE f = "assets" -> exch.assets
                        [] f = "positions" -> exch.positions
                        [] f = "history" -> exch.orders
                        [] f = "ticker" -> exch.tickers
                        [] f = "detail" -> exch.contracts
          IN  /\ fl[f].st = "pending"
              /\ \E o \in RawOutcomes(ver, f) \cap net :
                    fl' = [fl EXCEPT ![f] =
                              [Helper(ver, f, o, data, f = "history" /\ exch.paged)
                                  EXCEPT !.timer = fl[f].timer /\ ~ClearsTimeout(ver, f, o)]]
    /\ UNCHANGED <<deployment, exch, now, pc, wire, res, lookups, session, hist>>

\* catch (error) { res.status(500).json({error: error.message}) }
Fail ==
    /\ pc = "await"
    /\ Caught(ver, fl)
    /\ res' = res \o CatchResponse(CaughtMessage(ver, fl))
    /\ hist' = hist \cup {Answered(Error500(CaughtMessage(ver, fl)))}
    /\ pc' = "done"
    /\ UNCHANGED <<deployment, exch, now, fl, wire, lookups, session>>

\* Every fetch is in: the rest of the try block, up to res.json(...).
Finish ==
    /\ pc = "await"
    /\ ver # "part_006"
    /\ AllFulfilled(ver, fl)
    /\ ~Caught(ver, fl)
    /\ res' = Append(res, Respond(ver, fl))
    /\ hist' = hist \cup {Answered(Respond(ver, fl))}
    /\ pc' = "done"
    /\ UNCHANGED <<deployment, exch, now, fl, wire, lookups, session>>

(***************************************************************************)
(* part_006 after Promise.all: the position loop, the order lookups.       *)
(***************************************************************************)
\* What the exchange answers to /api/v1/contract/detail?symbol=sym on
\* outcome o: its record of the contract, or nothing it could use.
DetailOutcomes == {"ok", "apierr", "http", "badjson", "neterr"}

\* getContractDetails on a cache miss: data.data when response.ok and
\* data.success && data.data, null otherwise (and from the catch).
FetchedDetails(sym, o) ==
    IF o = "ok" THEN FirstWith(exch.contracts, sym) ELSE <<>>

\* if (data.success && data.data) contractDetailsCache.set(symbol, data.data)
CacheAfter(cacheNow, sym, details) ==
    IF details # <<>> THEN [cacheNow EXCEPT ![sym] = details] ELSE cacheNow

DetailRequest(sym) == PublicRequest(Path(ver, "detail"), "symbol=" \o sym)

\* The four results are in (none rejects).  asset.currency on a null element
\* throws; otherwise the for loop over the positions starts.
FinishFetches006 ==
    /\ pc = "await"
    /\ ver = "part_006"
    /\ AllFulfilled(ver, fl)
    /\ IF AssetsUsable006(fl) /\ fl["assets"].hasNull
       THEN /\ res' = res \o CatchResponse("TypeError")
            /\ hist' = hist \cup {Answered(Error500("TypeError"))}
            /\ pc' = "done"
       ELSE /\ pc' = "positions"
            /\ UNCHANGED <<res, hist>>
    /\ UNCHANGED <<deployment, exch, now, fl, wire, lookups, session>>

\* for (const pos of data) { const contractDetails = await
\* getContractDetails(pos.symbol); ... openPositions.push({...}) } with the
\* symbol in the cache.
PositionFromCache ==
    /\ pc = "positions"
    /\ ~(PositionsUsable006(fl) /\ fl["positions"].hasNull)
    /\ posIdx < Len(Positions006(fl))
    /\ LET pos == Positions006(fl)[posIdx + 1]
       IN  /\ contractDetailsCache[pos.symbol] # <<>>
           /\ openPositions' = Append(openPositions,
                  OpenPosition006(fl, pos, contractDetailsCache[pos.symbol]))
    /\ posIdx' = posIdx + 1
    /\ UNCHANGED <<deployment, exch, now, pc, fl, wire, res, contractDetailsCache,
                   ordDetails, session, hist>>

\* The same step on a cache miss: the fetch goes out and the loop waits.
PositionFetch ==
    /\ pc = "positions"
    /\ ~(PositionsUsable006(fl) /\ fl["positions"].hasNull)
    /\ posIdx < Len(Positions006(fl))
    /\ contractDetailsCache[Positions006(fl)[posIdx + 1].symbol] = <<>>
    /\ wire' = wire \cup {DetailRequest(Positions006(fl)[posIdx + 1].symbol)}
    /\ pc' = "posfetch"
    /\ UNCHANGED <<deployment, exch, now, fl, res, lookups, session, hist>>

\* The lookup of the position comes back.
PositionSettle ==
    /\ pc = "posfetch"
    /\ \E o \in DetailOutcomes \cap net :
          LET pos == Positions006(fl)[posIdx + 1]
              details == FetchedDetails(pos.symbol, o)
          IN  /\ contractDetailsCache' = CacheAfter(contractDetailsCache, pos.symbol, details)
              /\ openPositions' = Append(openPositions, OpenPosition006(fl, pos, details))
              /\ lost' = (IF o = "ok" THEN lost ELSE lost \cup {<<"position", posIdx + 1>>})
    /\ posIdx' = posIdx + 1
    /\ pc' = "positions"
    /\ UNCHANGED <<deployment, exch, now, fl, wire, res, ordDetails, cacheAtStart,
                   budget, hist>>

\* pos.symbol on a null element, or order.state on a null element of the
\* history once the loop is over: the catch answers.
Throw006 ==
    /\ pc = "positions"
    /\ \/ PositionsUsable006(fl) /\ fl["positions"].hasNull
       \/ /\ posIdx = Len(Positions006(fl))
          /\ HistoryUsable006(fl) /\ fl["history"].hasNull
    /\ res' = res \o CatchResponse("TypeError")
    /\ hist' = hist \cup {Answered(Error500("TypeError"))}
    /\ pc' = "done"
    /\ UNCHANGED <<deployment, exch, now, fl, wire, lookups, session>>

\* resultList.filter(...).map(async (order) => { await
\* getContractDetails(order.symbol) ... }): every call tests the cache and,
\* on a miss, sends its fetch before any of them comes back.
StartOrders ==
    /\ pc = "positions"
    /\ ~(PositionsUsable006(fl) /\ fl["positions"].hasNull)
    /\ posIdx = Len(Positions006(fl))
    /\ ~(HistoryUsable006(fl) /\ fl["history"].hasNull)
    /\ LET closed == ClosedOrders006(fl)
       IN  /\ ordDetails' = [j \in 1..Len(closed) |->
                  IF contractDetailsCache[closed[j].symbol] # <<>>
                  THEN [st |-> "done", details |-> contractDetailsCache[closed[j].symbol]]
                  ELSE [st |-> "pending", details |-> <<>>]]
           /\ wire' = wire \cup {DetailRequest(closed[j].symbol) :
                  j \in {k \in 1..Len(closed) : contractDetailsCache[closed[k].symbol] = <<>>}}
    /\ pc' = "orders"
    /\ UNCHANGED <<deployment, exch, now, fl, res, contractDetailsCache, posIdx,
                   openPositions, session, hist>>

\* One of the order lookups comes back.
OrderSettle ==
    /\ pc = "orders"
    /\ \E j \in 1..Len(ordDetails) : \E o \in DetailOutcomes \cap net :
          LET sym == ClosedOrders006(fl)[j].symbol
              details == FetchedDetails(sym, o)
          IN  /\ ordDetails[j].st = "pending"
              /\ ordDetails' = [ordDetails EXCEPT ![j] = [st |-> "done", details |-> details]]
              /\ contractDetailsCache' = CacheAfter(contractDetailsCache, sym, details)
              /\ lost' = (IF o = "ok" THEN lost ELSE lost \cup {<<"order", j>>})
    /\ UNCHANGED <<deployment, exch, now, pc, fl, wire, res, posIdx, openPositions,
                   cacheAtStart, budget, hist>>

Response006 ==
    Ok200(Body006(fl, openPositions, [j \in 1..Len(ordDetails) |-> ordDetails[j].details]))

\* await Promise.all(closedTradesPromises), the sort, res.json({...})
Respond006 ==
    /\ pc = "orders"
    /\ \A j \in 1..Len(ordDetails) : ordDetails[j].st = "done"
    /\ res' = Append(res, Response006)
    /\ hist' = hist \cup {Answered(Response006)}
    /\ pc' = "done"
    /\ UNCHANGED <<deployment, exch, now, fl, wire, lookups, session>>

\* The next GET /api/portfolio-data reaches the same process: the handler's
\* locals are new, the module-level cache is what the last request left.
NextRequest ==
    /\ pc = "done"
    /\ budget > 0
    /\ budget' = budget - 1
    /\ exch' \in worlds
    /\ pc' = "recv"
    /\ fl' = NoFetches
    /\ res' = <<>>
    /\ posIdx' = 0
    /\ openPositions' = FreshOpenPositions(openPositions)
    /\ ordDetails' = <<>>
    /\ cacheAtStart' = contractDetailsCache
    /\ lost' = {}
    /\ UNCHANGED <<deployment, now, wire, contractDetailsCache, hist>>

(***************************************************************************)
(* The exchange: the records its endpoints serve, with the fields the      *)
(* handlers read.                                                          *)
(***************************************************************************)
Asset(currency, availableBalance, equity, positionMargin) ==
    [currency |-> currency, availableBalance |-> availableBalance,
     equity |-> equity, positionMargin |-> positionMargin]

Position(symbol, positionType, holdAvgPrice, holdVol, im) ==
    [symbol |-> symbol, positionType |-> positionType, holdAvgPrice |-> holdAvgPrice,
     holdVol |-> holdVol, im |-> im,
     contractSize |-> Num(1), lastPrice |-> Num(7), unrealizedPL |-> Num(0)]

Order(symbol, state, openType, openAvgPrice, dealAvgPrice, vol, profit) ==
    [symbol |-> symbol, state |-> state, openType |-> openType,
     openAvgPrice |-> openAvgPrice, dealAvgPrice |-> dealAvgPrice, vol |-> vol,
     contractSize |-> Num(1), profit |-> profit]

Ticker(symbol, lastPrice) == [symbol |-> symbol, lastPrice |-> lastPrice]

Contract(symbol, contractSize) == [symbol |-> symbol, contractSize |-> contractSize]

\* An account hedged on BTC_USDT, with one closed order; the history comes
\* as a bare list or as {resultList: [...]}.
HedgedAccount(paged) ==
    [assets |-> <<Asset("USDT", Str(5), Num(9), Num(4))>>,
     positions |-> <<Position("BTC_USDT", 1, Num(5), Num(1), Num(2)),
                     Position("BTC_USDT", 2, Num(6), Num(1), Num(2))>>,
     orders |-> <<Order("BTC_USDT", 3, 1, Num(5), Num(8), Num(1), Num(3))>>,
     tickers |-> <<Ticker("BTC_USDT", Num(7))>>,
     contracts |-> <<Contract("BTC_USDT", Num(2))>>,
     paged |-> paged]

\* The requests to part_005 that may be in getPortfolioDataAndLog at once.
MaxLoggers == 2

\* const contractDetailsCache = new Map(), over the symbols in use
EmptyCache == [s \in {"BTC_USDT", "ETH_USDT"} |-> <<>>]

\* The process is up and the first request has arrived: a version of vs,
\* with the environment's keys, an exchange in one of the states ws, fetches
\* ending in one of the outcomes os, and n more requests to come, each
\* finding the exchange in one of the states later.
Boot(vs, keys, ws, later, os, n) ==
    /\ ver \in vs
    /\ apiKey \in keys /\ secretKey \in keys
    /\ worlds = later
    /\ net = os
    /\ exch \in ws
    /\ now = 0
    /\ pc = "recv"
    /\ fl = NoFetches
    /\ wire = {}
    /\ res = <<>>
    /\ contractDetailsCache = EmptyCache
    /\ posIdx = 0
    /\ openPositions = <<>>
    /\ ordDetails = <<>>
    /\ cacheAtStart = EmptyCache
    /\ lost = {}
    /\ budget = n
    /\ hist = {}
    /\ portfolio_history = <<>>
    /\ logging = [r \in 1..MaxLoggers |-> "fetched"]
    /\ minute = 0

(***************************************************************************)
(* Every version, one request, every outcome of every fetch.               *)
(***************************************************************************)
Init == Boot(Versions, {Unset, "mx0key"}, {HedgedAccount(p) : p \in BOOLEAN}, {}, Outcomes, 0)

Next ==
    \/ RejectMissingKeys
    \/ StartAll
    \/ StartNext
    \/ Settle
    \/ Fail
    \/ Finish
    \/ FinishFetches006
    \/ PositionFromCache
    \/ PositionFetch
    \/ PositionSettle
    \/ Throw006
    \/ StartOrders
    \/ OrderSettle
    \/ Respond006

Spec == Init /\ [][Next]_vars

(***************************************************************************)
(* Properties of every version.                                            *)
(***************************************************************************)
\* C1: in every version each request is answered exactly once: never two
\* responses on any path, and one response (a 200 body or a 500 error body)
\* when the handler has ended.
AnsweredExactlyOnce ==
    /\ Len(res) <= 1
    /\ pc = "done" => Len(res) = 1
    /\ \A i \in 1..Len(res) :
          \/ res[i].status = 200 /\ res[i].error = ""
          \/ res[i].status = 500 /\ res[i].error # "" /\ res[i].body = EmptyBody

\* A request that ended in the catch block, answered once.
CaughtAndAnswered ==
    /\ pc = "done" /\ apiKey # Unset /\ secretKey # Unset
    /\ Len(res) = 1 /\ res[1].status = 500
    /\ \E f \in Fetches : fl[f].st = "pending"

\* C5: every request sent to the exchange, by any version on any path, is a
\* GET to the assets, open_positions, history-orders, ticker or
\* contract-detail endpoint.
OnlyReads ==
    LET ReadEndpoints ==
            {"/api/v1/private/account/assets",
             "/api/v1/private/position/open_positions",
             "/api/v1/private/order/list_history_orders",
             "/api/v1/private/order/list/history_orders",
             "/api/v1/contract/ticker",
             "/api/v1/contract/detail"}
    IN  \A w \in wire : w.method = "GET" /\ w.path \in ReadEndpoints

\* part_006 has asked for the details of a contract, after its four fetches.
DetailAsked ==
    /\ ver = "part_006"
    /\ \E w \in wire : w.path = "/api/v1/contract/detail" /\ w.query = "symbol=BTC_USDT"
    /\ \E w \in wire : w.path = "/api/v1/private/order/list_history_orders"

\* C8: the signature of every signed request is the HMAC-SHA256 under the
\* secret key of apiKey + timestamp + query string, the timestamp being the
\* Request-Time header and the query string the one appended to the URL
\* (empty when there are no parameters).
SignatureCoversRequest ==
    \A w \in wire : w.signed =>
        /\ w.Signature = HmacSHA256(w.ApiKey \o w.RequestTime \o w.query, secretKey)
        /\ w.ApiKey = apiKey
        /\ \/ w.url = w.path \o "?" \o w.query
           \/ w.query = "" /\ w.url = w.path

\* Signed requests with and without parameters are out, at a later time.
SignedHistoryOut ==
    /\ \E w \in wire : w.signed /\ w.query = "page_size=200" /\ w.RequestTime = "1"
    /\ \E w \in wire : w.signed /\ w.query = ""

\* C10: in server.js (first handler), part_000, part_002 and part_006, with
\* MEXC_API_KEY or MEXC_SECRET_KEY not set, no request goes to the exchange,
\* signed or public, and the answer is a 500 with an error body.
NoKeysNoRequests ==
    (/\ ver \in {"server_a", "part_000", "part_002", "part_006"}
     /\ (apiKey = Unset \/ secretKey = Unset))
    => /\ wire = {}
       /\ \A i \in 1..Len(res) : res[i].status = 500 /\ res[i].error # ""
       /\ pc \in {"recv", "done"}

\* The secret alone is missing and the request has been turned down.
TurnedDownWithoutSecret ==
    /\ ver \in {"server_a", "part_000", "part_002", "part_006"}
    /\ apiKey # Unset /\ secretKey = Unset
    /\ pc = "done" /\ Len(res) = 1 /\ res[1].status = 500

\* A fetch of the current request that failed: makeRequest returned
\* {success: false, error}, getAllTickers returned {}.
FetchFailed(f) == fl[f].st = "val" /\ ~fl[f].success

\* C3 as stated: in server.js (first handler) and part_006, whenever a fetch
\* made for the request fails (network error, timeout, non-OK status,
\* unparsable body, exchange error code), the answer is a 500, never a 200
\* with portfolio figures.
FailedFetchAnswered500 ==
    (/\ ver \in {"server_a", "part_006"}
     /\ pc = "done"
     /\ (\E f \in Fetches : FetchFailed(f)) \/ lost # {})
    => /\ Len(res) = 1
       /\ res[1].status = 500

\* C3, amended: in server.js (first handler) and part_006 a failed fetch is
\* not answered with a 500.  With the keys set and no null element in what
\* the other fetches brought, the answer is a 200 in which the failed source
\* counts for nothing: no positions and no margin without the positions, no
\* trades without the history, price and PNL 0 without the tickers, and in
\* part_006 a total of 0 without the assets.
FailedFetchAnswered200 ==
    (/\ ver \in {"server_a", "part_006"}
     /\ pc = "done"
     /\ apiKey # Unset /\ secretKey # Unset
     /\ \A f \in Fetches : ~fl[f].hasNull)
    => /\ Len(res) = 1
       /\ res[1].status = 200
       /\ FetchFailed("positions") =>
             /\ res[1].body.openPositions = <<>>
             /\ res[1].body.openPositionsCount = Num(0)
             /\ res[1].body.assetsValue = Num(0)
       /\ FetchFailed("history") =>
             /\ res[1].body.bestTrades = <<>>
             /\ res[1].body.worstTrades = <<>>
       /\ FetchFailed("ticker") =>
             \A i \in 1..Len(res[1].body.openPositions) :
                 /\ res[1].body.openPositions[i].currentPrice = Num(0)
                 /\ res[1].body.openPositions[i].unrealizedPNL = Num(0)
       /\ (FetchFailed("assets") /\ ver = "part_006") =>
             res[1].body.totalBalance = Num(0)

\* The positions and the history were lost, the assets and the tickers were
\* not, and the answer is a 200.
AnsweredDespiteFailures ==
    /\ ver \in {"server_a", "part_006"}
    /\ pc = "done"
    /\ FetchFailed("positions") /\ FetchFailed("history")
    /\ fl["assets"].success /\ fl["ticker"].success
    /\ fl["history"].err = "Request timed out"
    /\ Len(res) = 1 /\ res[1].status = 200

(***************************************************************************)
(* server.js, first handler: one request over accounts whose numeric       *)
(* fields parse, every fetch succeeding or failing.                        *)
(***************************************************************************)
\* The asset lists an account may hold: none, USDT alone, USDT after BTC.
AssetsOf ==
    {<<>>,
     <<Asset("USDT", Str(5), Num(9), Num(4))>>,
     <<Asset("BTC", Num(1), Num(1), Num(0)), Asset("USDT", Num(4), Num(9), Num(4))>>}

WorldsA ==
    LET first(im) ==
            [Position("BTC_USDT", 1, Str(5), Num(1), im) EXCEPT !.contractSize = Num(2)]
        positions ==
            {<<>>} \cup
            {<<first(im)>> : im \in {Num(2), Str(3)}} \cup
            {<<first(im), Position("ETH_USDT", 2, Num(6), Num(3), Num(4))>> :
                im \in {Num(2), Str(3)}}
        tickers ==
            {<<>>,
             <<Ticker("BTC_USDT", Str(7))>>,
             <<Ticker("BTC_USDT", Num(7)), Ticker("ETH_USDT", Num(4))>>}
    IN  {[assets |-> a, positions |-> p, tickers |-> t,
          orders |-> <<Order("BTC_USDT", 3, 1, Num(5), Num(8), Num(1), Num(3))>>,
          contracts |-> <<>>, paged |-> TRUE] :
            a \in AssetsOf, p \in positions, t \in tickers}

NextA ==
    \/ StartAll
    \/ Settle
    \/ Finish

SpecA ==
    /\ Boot({"server_a"}, {"mx0key"}, WorldsA, {}, {"ok", "apierr", "neterr"}, 0)
    /\ [][NextA]_vars

\* C2: in the first handler of server.js every 200 response is consistent,
\* whichever fetches failed, when the numeric fields parse: totalBalance is
\* the USDT availableBalance plus assetsValue plus the sum of unrealizedPNL
\* over the returned openPositions, assetsValue is the sum of im over the
\* fetched positions, openPositionsCount is the length of openPositions.
ConsistentSnapshotA ==
    (ver = "server_a" /\ Len(res) = 1 /\ res[1].status = 200) =>
        LET body == res[1].body
            fetched == IF fl["positions"].success THEN fl["positions"].items ELSE <<>>
            usdt == IF fl["assets"].success THEN FindUsdt(fl["assets"].items) ELSE <<>>
            available == IF usdt = <<>> THEN Num(0)
                         ELSE ParseFloat(usdt[1].availableBalance)
            pnls == [i \in 1..Len(body.openPositions) |->
                        body.openPositions[i].unrealizedPNL]
            margins == [i \in 1..Len(fetched) |-> ParseFloat(fetched[i].im)]
        IN  /\ NumEq(body.totalBalance,
                     NumAdd(NumAdd(available, body.assetsValue), SumSeq(pnls, Num(0))))
            /\ NumEq(body.assetsValue, SumSeq(margins, Num(0)))
            /\ body.openPositionsCount = Num(Len(body.openPositions))
            /\ Len(body.openPositions) = Len(fetched)

\* A 200 over two positions with a PNL that is not 0, the assets lost.
SnapshotWithoutAssets ==
    /\ ver = "server_a" /\ Len(res) = 1 /\ res[1].status = 200
    /\ FetchFailed("assets")
    /\ Len(res[1].body.openPositions) = 2
    /\ ~NumEq(res[1].body.openPositions[1].unrealizedPNL, Num(0))
    /\ ~NumEq(res[1].body.openPositions[2].unrealizedPNL, Num(0))

(***************************************************************************)
(* part_002: one request over accounts with open positions that carry an   *)
(* unrealized profit or loss.                                              *)
(***************************************************************************)
Worlds002 ==
    LET first(pl) ==
            [Position("BTC_USDT", 1, Num(5), Num(1), Num(2)) EXCEPT !.unrealizedPL = pl]
        second ==
            [Position("ETH_USDT", 2, Num(6), Num(3), Str(4)) EXCEPT !.unrealizedPL = Num(2)]
        positions ==
            {<<>>} \cup
            {<<first(pl)>> : pl \in {Num(0), Num(1), Str(0 - 3)}} \cup
            {<<first(pl), second>> : pl \in {Num(0), Num(1), Str(0 - 3)}}
    IN  {[assets |-> a, positions |-> p,
          tickers |-> <<Ticker("BTC_USDT", Num(7))>>,
          orders |-> <<Order("BTC_USDT", 3, 1, Num(5), Num(8), Num(1), Num(3)),
                       Order("ETH_USDT", 3, 2, Num(5), Num(8), Num(1), Num(0 - 3))>>,
          contracts |-> <<>>, paged |-> TRUE] :
            a \in AssetsOf, p \in positions}

Next002 ==
    \/ StartNext
    \/ Settle
    \/ Fail
    \/ Finish

Spec002 ==
    /\ Boot({"part_002"}, {"mx0key"}, Worlds002, {}, {"ok", "garbled", "apierr", "neterr"}, 0)
    /\ [][Next002]_vars

\* C4 as stated: in part_002 the totalBalance of a 200 response is the
\* equity with the unrealized PNL in it: the available balance plus the
\* position margin plus the sum of the unrealized PNL of the listed
\* positions.
EquityIncludesUnrealized002 ==
    (ver = "part_002" /\ Len(res) = 1 /\ res[1].status = 200) =>
        LET body == res[1].body
            assets == IF fl["assets"].success THEN fl["assets"].items ELSE <<>>
            available == SumSeq([i \in 1..Len(assets) |->
                                    ParseFloat(assets[i].availableBalance)], Num(0))
            pnls == [i \in 1..Len(body.openPositions) |->
                        body.openPositions[i].unrealizedPNL]
        IN  NumEq(body.totalBalance,
                  NumAdd(NumAdd(available, body.assetsValue), SumSeq(pnls, Num(0))))

(***************************************************************************)
(* The versions with the contract-size map: one request, the exchange      *)
(* serving numbers, with and without an entry for the contract.            *)
(***************************************************************************)
WorldsContract ==
    LET positions ==
            {<<Position("BTC_USDT", 1, Num(5), Num(3), Num(2)),
               Position("BTC_USDT", 2, Num(5), Num(3), Num(2))>>,
             <<Position("BTC_USDT", 2, Num(9), Num(1), Num(0)),
               Position("ETH_USDT", 1, Num(6), Num(2), Num(4))>>}
        contracts ==
            {<<>>,
             <<Contract("BTC_USDT", Num(2))>>,
             <<Contract("ETH_USDT", Num(10)), Contract("BTC_USDT", Num(2))>>}
    IN  {[assets |-> <<Asset("USDT", Num(5), Num(9), Num(4))>>,
          positions |-> p, tickers |-> t, contracts |-> c,
          orders |-> <<Order("BTC_USDT", 3, 1, Num(5), Num(8), Num(1), Num(3))>>,
          paged |-> FALSE] :
            p \in positions, c \in contracts,
            t \in {<<>>, <<Ticker("BTC_USDT", Str(7)), Ticker("ETH_USDT", Num(4))>>}}

NextContract ==
    \/ StartAll
    \/ Settle
    \/ Fail
    \/ Finish

SpecContract ==
    /\ Boot(ContractVersions, {"mx0key"}, WorldsContract, {}, {"ok", "apierr", "neterr"}, 0)
    /\ [][NextContract]_vars

\* C9: in the second handler of server.js and in part_003, part_004,
\* part_005 and part_007 the PNL reported for an open position is
\* (currentPrice - holdAvgPrice) * holdVol * contractSize * d, d being 1 for
\* positionType 1 and -1 otherwise, contractSize the value the fetched
\* contract list holds for the symbol (a positive number) and 1 when it
\* holds none; a Long and a Short of the same symbol, price and volume
\* report PNLs that are each other's negation.
PnlFormulaContract ==
    (ver \in ContractVersions /\ Len(res) = 1 /\ res[1].status = 200) =>
        LET listed == res[1].body.openPositions
            fetched == fl["positions"].items
            ListedContract(list, symbol) ==
                {list[k].contractSize : k \in {j \in 1..Len(list) : list[j].symbol = symbol}}
            Expected(i) ==
                LET sizes == ListedContract(fl["detail"].items, fetched[i].symbol)
                    contractSize == IF sizes = {} THEN Num(1) ELSE CHOOSE c \in sizes : TRUE
                    d == IF fetched[i].positionType = 1 THEN Num(1) ELSE Num(0 - 1)
                IN  NumMul(NumMul(NumMul(NumAdd(ToNumber(listed[i].currentPrice),
                                                Neg(ToNumber(fetched[i].holdAvgPrice))),
                                         ToNumber(fetched[i].holdVol)),
                                  ToNumber(contractSize)), d)
        IN  /\ Len(listed) = Len(fetched)
            /\ \A i \in 1..Len(listed) : NumEq(listed[i].unrealizedPNL, Expected(i))
            /\ \A i, j \in 1..Len(listed) :
                  (/\ fetched[i].symbol = fetched[j].symbol
                   /\ fetched[i].holdAvgPrice = fetched[j].holdAvgPrice
                   /\ fetched[i].holdVol = fetched[j].holdVol
                   /\ fetched[i].positionType = 1 /\ fetched[j].positionType # 1)
                  => NumEq(listed[i].unrealizedPNL, Neg(listed[j].unrealizedPNL))

\* A hedged pair with a PNL that is not 0 has been reported, under a
\* contract size that is not 1.
HedgedPairReported ==
    /\ ver \in ContractVersions /\ Len(res) = 1 /\ res[1].status = 200
    /\ Len(res[1].body.openPositions) = 2
    /\ res[1].body.openPositions[1].positionType = "Long"
    /\ res[1].body.openPositions[2].positionType = "Short"
    /\ NumEq(res[1].body.openPositions[1].unrealizedPNL, Num(12))
    /\ NumEq(res[1].body.openPositions[2].unrealizedPNL, Num(0 - 12))

(***************************************************************************)
(* part_006: one request over an exchange whose fields hold any kind of    *)
(* value.                                                                  *)
(***************************************************************************)
\* holdAvgPrice is a finite number, a numeric string, a non-numeric string,
\* null, a missing field, or a numeric string beyond the range of the doubles.
Worlds006 ==
    {[assets |-> <<Asset("USDT", Num(5), equity, Num(4))>>,
      positions |-> <<Position("BTC_USDT", 1, holdAvgPrice, holdVol, im),
                      Position("BTC_USDT", 2, Num(6), Num(1), Num(2))>>,
      tickers |-> <<Ticker("BTC_USDT", lastPrice)>>,
      contracts |-> <<Contract("BTC_USDT", Num(2)), Contract("ETH_USDT", BadStr)>>,
      orders |-> <<Order("ETH_USDT", 3, 2, Str(3), Num(7), BadStr, Num(0))>>,
      paged |-> TRUE] :
        holdAvgPrice \in {Num(7), Str(3), BadStr, Null, Undef, HugeStr},
        holdVol \in {Num(1), HugeStr},
        lastPrice \in {Num(7), Undef},
        im \in {Num(2), Null},
        equity \in {Str(3), BadStr}}

Next006 ==
    \/ StartAll
    \/ Settle
    \/ FinishFetches006
    \/ PositionFromCache
    \/ PositionFetch
    \/ PositionSettle
    \/ Throw006
    \/ StartOrders
    \/ OrderSettle
    \/ Respond006

Spec006 ==
    /\ Boot({"part_006"}, {"mx0key"}, Worlds006, {}, {"ok", "garbled", "neterr"}, 0)
    /\ [][Next006]_vars

\* C7 as stated: in part_006 every computed numeric field of a 200 response
\* (totalBalance, assetsValue, each position's openPrice, currentPrice,
\* unrealizedPNL and pnlPercentage, each trade's pnl) is a number and never
\* NaN, whatever the exchange fields hold: a finite number, a numeric
\* string, a non-numeric string, null or nothing.
NeverNaN006 ==
    (ver = "part_006" /\ Len(res) = 1 /\ res[1].status = 200) =>
        LET body == res[1].body
            NumbersIn(values) == \A i \in 1..Len(values) : IsNumber(values[i])
        IN  /\ IsNumber(body.totalBalance)
            /\ IsNumber(body.assetsValue)
            /\ NumbersIn([i \in 1..Len(body.openPositions) |-> body.openPositions[i].openPrice])
            /\ NumbersIn([i \in 1..Len(body.openPositions) |-> body.openPositions[i].currentPrice])
            /\ NumbersIn([i \in 1..Len(body.openPositions) |-> body.openPositions[i].unrealizedPNL])
            /\ NumbersIn([i \in 1..Len(body.openPositions) |-> body.openPositions[i].pnlPercentage])
            /\ NumbersIn([i \in 1..Len(body.bestTrades) |-> body.bestTrades[i].pnl])
            /\ NumbersIn([i \in 1..Len(body.worstTrades) |-> body.worstTrades[i].pnl])

(***************************************************************************)
(* part_006: several requests to one process, the exchange listing the     *)
(* contract at some of them and not at others.                             *)
(***************************************************************************)
\* The requests that follow the first one.
MaxRequests == 2

CacheWorlds ==
    {[HedgedAccount(TRUE) EXCEPT !.contracts = c] :
        c \in {<<>>, <<Contract("BTC_USDT", Num(2))>>}}

NextCache ==
    \/ StartAll
    \/ Settle
    \/ FinishFetches006
    \/ PositionFromCache
    \/ PositionFetch
    \/ PositionSettle
    \/ StartOrders
    \/ OrderSettle
    \/ Respond006
    \/ NextRequest

SpecCache ==
    /\ Boot({"part_006"}, {"mx0key"}, CacheWorlds, CacheWorlds, {"ok"}, MaxRequests)
    /\ [][NextCache]_vars

\* C6 as stated: in part_006 nothing outlives a request; two requests that
\* receive the same exchange data (the same results of the four fetches,
\* from an exchange serving the same contract records, no lookup lost) are
\* answered with the same body, whatever earlier requests fetched and
\* whatever contractDetailsCache holds.
SameDataSameBody ==
    \A a, b \in hist :
        (a.seen = b.seen /\ a.contracts = b.contracts /\ a.lost = {} /\ b.lost = {})
        => a.response.body = b.response.body

\* C6, amended: in part_006 contractDetailsCache outlives the request; two
\* requests that receive the same exchange data and find the same
\* contractDetailsCache when they arrive are answered with the same body,
\* and nothing else of an earlier request reaches a later one.
SameDataAndCacheSameBody ==
    \A a, b \in hist :
        (/\ a.seen = b.seen /\ a.contracts = b.contracts /\ a.lost = b.lost
         /\ a.cache = b.cache)
        => a.response = b.response

\* Two requests found the same filled cache and the same exchange, and a
\* third one, to the same exchange, found the cache empty.
SameCacheTwice ==
    \E a, b, c \in hist :
        /\ a.n # b.n /\ c.n = MaxRequests
        /\ a.seen = b.seen /\ a.contracts = b.contracts /\ a.lost = b.lost
        /\ a.cache = b.cache /\ a.cache # EmptyCache
        /\ c.seen = a.seen /\ c.contracts = a.contracts /\ c.cache = EmptyCache
        /\ a.response.status = 200


(***************************************************************************)
(* Properties of the versions built on Promise.all.                        *)
(***************************************************************************)
\* C11: part_004 is all-or-nothing: when one of the five fetches rejects or
\* returns a body whose success is falsy, the answer is a 500 without
\* portfolio figures; a 200 is sent only when the five bodies have success
\* true.
AllOrNothing004 ==
    (ver = "part_004" /\ Len(res) = 1) =>
        /\ (\E f \in Fetches : fl[f].st = "rej" \/ (fl[f].st = "val" /\ ~fl[f].success))
              => res[1].status = 500 /\ res[1].body = EmptyBody
        /\ res[1].status = 200 => \A f \in Fetches : fl[f].st = "val" /\ fl[f].success

\* part_004 has its five bodies, the tickers alone unsuccessful, and has
\* answered 500.
UnsuccessfulTickers004 ==
    /\ ver = "part_004" /\ Len(res) = 1 /\ res[1].status = 500
    /\ res[1].error = "One or more API calls were unsuccessful."
    /\ \A f \in Fetches : fl[f].st = "val" /\ (fl[f].success <=> f # "ticker")

(***************************************************************************)
(* The Promise.all versions: one request with every outcome of every       *)
(* fetch, and a request and its replays to the second handler of server.js *)
(* or to part_004 with every signed call failing, in a non-OK status or in *)
(* a network error.                                                        *)
(***************************************************************************)
\* The requests that follow the first one.
Replays == 1

NextOrder ==
    \/ StartAll
    \/ Settle
    \/ Fail
    \/ Finish
    \/ FinishFetches006
    \/ PositionFromCache
    \/ PositionFetch
    \/ PositionSettle
    \/ Throw006
    \/ StartOrders
    \/ OrderSettle
    \/ Respond006
    \/ NextRequest

SpecOrder ==
    /\ \/ Boot(TimeoutVersions \cup ContractVersions, {"mx0key"},
               {HedgedAccount(p) : p \in BOOLEAN}, {}, Outcomes, 0)
       \/ Boot({"server_b", "part_004"}, {"mx0key"},
               {HedgedAccount(FALSE)}, {HedgedAccount(FALSE)}, {"http", "neterr"}, Replays)
    /\ [][NextOrder]_vars

\* C12 as stated: in the Promise.all versions every fetch is started before
\* any result is used, a 200 is sent only once every fetch is fulfilled, a
\* rejected fetch is answered 500 with nothing of the fetches in flight, and
\* the response does not depend on the order in which the fetches complete:
\* two requests whose fetches end in the same results, as far as both saw
\* them end, are answered alike.
OrderIndependent ==
    LET Settled(x) == x.st \in {"val", "rej"}
        Compatible(a, b) ==
            /\ a.exch = b.exch /\ a.cache = b.cache /\ a.lost = b.lost
            /\ \A f \in Fetches :
                  (Settled(a.seen[f]) /\ Settled(b.seen[f])) => a.seen[f] = b.seen[f]
    IN  /\ pc # "recv" => \A f \in Fetches : InPlan(ver, f) => fl[f].st # "none"
        /\ \A i \in 1..Len(res) :
              /\ res[i].status = 200 =>
                    \A f \in Fetches : InPlan(ver, f) => fl[f].st = "val"
              /\ (\E f \in Fetches : fl[f].st = "rej") =>
                    res[i].status = 500 /\ res[i].body = EmptyBody
        /\ \A a, b \in hist : Compatible(a, b) => a.response = b.response

\* C12, amended: in the Promise.all versions every fetch is started (its
\* request sent) before any result is used, a 200 is sent only once every
\* fetch is fulfilled, and a rejected fetch is answered 500 with nothing of
\* the fetches in flight; the status, and the body of a 200, do not depend
\* on the order in which the fetches complete, but the error message of a
\* 500 is that of the fetch that rejected first.
FirstRejectionAnswers ==
    LET Settled(x) == x.st \in {"val", "rej"}
        Compatible(a, b) ==
            /\ a.exch = b.exch /\ a.cache = b.cache /\ a.lost = b.lost
            /\ \A f \in Fetches :
                  (Settled(a.seen[f]) /\ Settled(b.seen[f])) => a.seen[f] = b.seen[f]
    IN  /\ pc # "recv" =>
              \A f \in Fetches : InPlan(ver, f) =>
                  /\ fl[f].st # "none"
                  /\ \E w \in wire : w.path = Path(ver, f)
        /\ \A i \in 1..Len(res) :
              /\ res[i].status = 200 =>
                    \A f \in Fetches : InPlan(ver, f) => fl[f].st = "val"
              /\ (\E f \in Fetches : fl[f].st = "rej") =>
                    /\ res[i].status = 500 /\ res[i].body = EmptyBody
                    /\ \E f \in Fetches : fl[f].st = "rej" /\ res[i].error = fl[f].err
                    /\ \A f, g \in Fetches : (fl[f].st = "rej" /\ fl[g].st = "rej") => f = g
        /\ \A a, b \in hist :
              Compatible(a, b) =>
                  /\ a.response.status = b.response.status
                  /\ a.response.status = 200 => a.response = b.response

\* Two requests to the same exchange, one answered with the non-OK status of
\* its assets call while the positions were in flight, the other with the
\* network error of its positions call while the assets were in flight.
TwoOrdersTwoMessages ==
    \E a, b \in hist :
        /\ a.exch = b.exch
        /\ a.seen["assets"].st = "rej" /\ a.seen["positions"].st = "pending"
        /\ b.seen["positions"].st = "rej" /\ b.seen["assets"].st = "pending"
        /\ \A f \in Fetches \ {"assets", "positions"} : a.seen[f] = b.seen[f]
        /\ a.response.status = 500 /\ b.response.status = 500
        /\ a.response.error # b.response.error

(***************************************************************************)
(* part_006 with two closed orders of a symbol held in no open position.   *)
(***************************************************************************)
SpecLookups ==
    /\ Boot({"part_006"}, {"mx0key"},
            {[HedgedAccount(TRUE) EXCEPT
                 !.orders = <<Order("ETH_USDT", 3, 1, Num(5), Num(8), Num(1), Num(3)),
                              Order("ETH_USDT", 3, 2, Num(5), Num(8), Num(1), Num(3))>>,
                 !.contracts = <<Contract("BTC_USDT", Num(2)), Contract("ETH_USDT", Num(3))>>]},
            {HedgedAccount(TRUE)}, {"ok", "neterr"}, Replays)
    /\ [][NextCache]_vars

\* C13 as stated: over the lifetime of the server getContractDetails of
\* part_006 completes at most one successful contract-detail fetch for a
\* symbol: a lookup that comes back with the contract's record finds no
\* record of that symbol in contractDetailsCache.
OneFetchPerSymbol ==
    [][ /\ pc = "posfetch" /\ posIdx' = posIdx + 1 =>
            LET sym == Positions006(fl)[posIdx + 1].symbol
            IN  contractDetailsCache'[sym] # contractDetailsCache[sym]
                \/ contractDetailsCache'[sym] = <<>>
        /\ \A j \in 1..Len(ordDetails) :
              (/\ pc = "orders" /\ pc' = "orders"
               /\ ordDetails[j].st = "pending"
               /\ ordDetails'[j].st = "done"
               /\ ordDetails'[j].details # <<>>)
              => contractDetailsCache[ClosedOrders006(fl)[j].symbol] = <<>> ]_vars

\* C14: the makeRequest of server.js (first handler) and of part_006 never
\* rejects: every signed call that has returned is fulfilled with a boolean
\* success, a failed one carrying the message of its failure, and its timer
\* has been cleared; a timer is live only while its call is in flight.
MakeRequestNeverRejects ==
    ver \in TimeoutVersions =>
        \A f \in SignedFetches :
            /\ fl[f].st # "rej"
            /\ fl[f].st = "val" =>
                  /\ fl[f].success \in BOOLEAN
                  /\ ~fl[f].timer
                  /\ ~fl[f].success =>
                        fl[f].err \in {"Request timed out", "MEXC request failed with status",
                                       "MEXC API Error", "Unexpected token", "network error"}
            /\ fl[f].timer => fl[f].st = "pending"
            /\ (fl[f].st = "pending") => fl[f].timer

\* The assets call has timed out and been answered {success: false, error:
\* 'Request timed out'} with its timer cleared, the positions call is still
\* in flight under its own timer.
TimedOutAndCleared ==
    /\ ver \in TimeoutVersions
    /\ fl["assets"].st = "val" /\ ~fl["assets"].success
    /\ fl["assets"].err = "Request timed out" /\ ~fl["assets"].timer
    /\ fl["positions"].st = "pending" /\ fl["positions"].timer

(***************************************************************************)
(* part_005, "Log equity to the database periodically": requests whose     *)
(* fetches are in, each selecting the last row and then inserting one, on  *)
(* a pool that is configured and answers.                                  *)
(***************************************************************************)
\* if (minutesSinceLastLog > 5)
LogInterval == 5

\* The minutes the clock runs through.
MaxMinute == 7

\* const lastLog = await pool.query('SELECT timestamp ... ORDER BY timestamp
\* DESC LIMIT 1'); const now = new Date(); lastLogTime is the epoch when the
\* table is empty; if (minutesSinceLastLog > 5) the INSERT is sent.  A
\* request that is through leaves its place to the next one.
CheckLastLog ==
    /\ ver = "part_005"
    /\ \E r \in 1..MaxLoggers :
          LET last == CHOOSE t \in {portfolio_history[i] : i \in 1..Len(portfolio_history)} :
                          \A i \in 1..Len(portfolio_history) : portfolio_history[i] <= t
          IN  /\ logging[r] \in {"fetched", "logged"}
              /\ logging' = [logging EXCEPT ![r] =
                     IF Len(portfolio_history) = 0 \/ minute - last > LogInterval
                     THEN "insert" ELSE "logged"]
    /\ UNCHANGED <<ver, apiKey, secretKey, worlds, net, exch, now, pc, fl, wire, res,
                   lookups, session, hist, portfolio_history, minute>>

\* await pool.query('INSERT INTO portfolio_history (equity, timestamp)
\* VALUES ($1, NOW())', [totalEquity])
InsertLog ==
    /\ \E r \in 1..MaxLoggers :
          /\ logging[r] = "insert"
          /\ logging' = [logging EXCEPT ![r] = "logged"]
    /\ portfolio_history' = Append(portfolio_history, minute)
    /\ UNCHANGED <<ver, apiKey, secretKey, worlds, net, exch, now, pc, fl, wire, res,
                   lookups, session, hist, minute>>

\* A minute passes.
Tick ==
    /\ minute < MaxMinute
    /\ minute' = minute + 1
    /\ UNCHANGED <<ver, apiKey, secretKey, worlds, net, exch, now, pc, fl, wire, res,
                   lookups, session, hist, portfolio_history, logging>>

NextLog ==
    \/ CheckLastLog
    \/ InsertLog
    \/ Tick

SpecLog ==
    /\ Boot({"part_005"}, {"mx0key"}, {HedgedAccount(FALSE)}, {}, {"ok"}, 0)
    /\ [][NextLog]_vars

\* C15 as stated: any two rows of portfolio_history inserted by
\* getPortfolioDataAndLog of part_005 have timestamps more than 5 minutes
\* apart, whatever the requests and however they interleave.
RowsFiveMinutesApart ==
    \A i, j \in 1..Len(portfolio_history) :
        i < j => portfolio_history[j] - portfolio_history[i] > LogInterval

(***************************************************************************)
(* Every version, one request, on an account with a Long and a Short on    *)
(* BTC_USDT under different margins, a Long on ETH_USDT for which the      *)
(* exchange lists no price (or the price 0) and no margin (or the margin   *)
(* 0), and six closed trades, two of them winners.                         *)
(***************************************************************************)
SpecFigures ==
    /\ Boot(Versions, {Unset, "mx0key"},
            {[assets |-> <<Asset("USDT", Str(5), Num(9), Num(4))>>,
              positions |-> <<Position("BTC_USDT", 1, Num(5), Num(1), Num(2)),
                              Position("BTC_USDT", 2, Num(6), Num(1), Num(3)),
                              Position("ETH_USDT", 1, Num(5), Num(1), im)>>,
              orders |-> <<Order("BTC_USDT", 3, 2, Num(5), Num(8), Num(1), Num(-3)),
                           Order("BTC_USDT", 3, 1, Num(5), Num(8), Num(1), Num(3)),
                           Order("BTC_USDT", 3, 2, Num(5), Num(8), Num(2), Num(-6)),
                           Order("BTC_USDT", 3, 1, Num(6), Num(5), Num(1), Num(-1)),
                           Order("BTC_USDT", 3, 1, Num(5), Num(6), Num(1), Num(1)),
                           Order("BTC_USDT", 3, 1, Num(9), Num(5), Num(1), Num(-4))>>,
              tickers |-> tickers,
              contracts |-> <<Contract("BTC_USDT", Num(2)), Contract("ETH_USDT", Num(3))>>,
              paged |-> paged] :
                im \in {Num(0), Undef},
                tickers \in {<<Ticker("BTC_USDT", Num(7))>>,
                             <<Ticker("BTC_USDT", Num(7)), Ticker("ETH_USDT", Num(0))>>},
                paged \in BOOLEAN},
            {}, {"ok", "garbled", "neterr"}, 0)
    /\ [][Next]_vars

BestTradesAreWinners ==
    (Len(res) = 1 /\ res[1].status = 200) =>
        LET B == res[1].body.bestTrades
            W == res[1].body.worstTrades
        IN  /\ \A k \in 1..Len(B) : ~JsGt(Num(0), B[k].pnl)
            /\ \A k \in 1..Len(B) : \A m \in 1..Len(W) : B[k] # W[m]

\* C18 as stated: in the versions that mark a position to the ticker price,
\* an open position for whose symbol the exchange lists no price, or the
\* price 0, is sent with currentPrice 0 and unrealized PNL 0.
NoPriceNoPnl ==
    (ver \in TimeoutVersions \cup ContractVersions /\ Len(res) = 1 /\ res[1].status = 200) =>
        \A k \in 1..Len(res[1].body.openPositions) :
            LET listed == res[1].body.openPositions[k]
                unpriced == \A i \in 1..Len(exch.tickers) :
                               exch.tickers[i].symbol = listed.symbol
                                   => exch.tickers[i].lastPrice = Num(0)
            IN  unpriced => listed.currentPrice = Num(0) /\ listed.unrealizedPNL = Num(0)

\* C19 as stated: in every version that sends open positions, the
\* pnlPercentage of a position whose im is 0 or missing is a finite number,
\* never Infinity or NaN.
PercentageFinite ==
    (Len(res) = 1 /\ res[1].status = 200) =>
        \A k \in 1..Len(res[1].body.openPositions) :
            (k <= Len(exch.positions) /\ exch.positions[k].im \in {Num(0), Undef, Null})
                => res[1].body.openPositions[k].pnlPercentage.t = "num"

\* C20 as stated: in part_006 the assetsValue of a 200 is the sum of im over
\* the open positions the exchange returned, each counted once, two
\* positions on one symbol included; it is 0 when the positions call failed.
MarginOfEveryPosition ==
    (ver = "part_006" /\ Len(res) = 1 /\ res[1].status = 200) =>
        res[1].body.assetsValue =
            SumSeq([i \in 1..Len(Positions006(fl)) |->
                       safeParseFloat(Positions006(fl)[i].im)], Num(0))

(***************************************************************************)
(* The first handler of server.js and part_006, one request, on an         *)
(* exchange that answers every call in time or answers none.  A call left  *)
(* unanswered ends when a timer aborts it: the signed calls carry one      *)
(* (outcome "timeout"), fetch(url) of getAllTickers and getContractDetails *)
(* carries none.  A continuation that can run does run.                    *)
(***************************************************************************)
NextLive ==
    \/ StartAll
    \/ Settle
    \/ Finish
    \/ FinishFetches006
    \/ PositionFromCache
    \/ PositionFetch
    \/ PositionSettle
    \/ StartOrders
    \/ OrderSettle
    \/ Respond006

SpecLive ==
    /\ \/ Boot(TimeoutVersions, {"mx0key"}, {HedgedAccount(TRUE)}, {}, {"ok", "timeout"}, 0)
       \/ Boot(TimeoutVersions, {"mx0key"}, {HedgedAccount(TRUE)}, {}, {"timeout"}, 0)
    /\ [][NextLive]_vars
    /\ WF_vars(NextLive)

\* C21 as stated: every request to the first handler of server.js or to
\* part_006 is answered in the end, even when the exchange leaves a call
\* unanswered: every call the handler awaits settles.
AnsweredInTheEnd == <>(pc = "done" /\ Len(res) = 1)

\* C22 as stated: in part_002 a body of HTTP 200 whose code is not 0 makes
\* makeRequest throw 'MEXC API Error (<code>): <msg>', which is the message
\* of the 500; 'Failed to parse JSON from MEXC' is raised only on a body that
\* is not JSON.  The exchange of Spec002 sends no such body, so no call is
\* rejected with the parse failure and no 500 carries it.
ApiErrorReported002 ==
    ver = "part_002" =>
        /\ \A f \in Fetches :
              fl[f].st = "rej" => fl[f].err # "Failed to parse JSON from MEXC"
        /\ \A i \in 1..Len(res) :
              res[i].status = 500 => res[i].error # "Failed to parse JSON from MEXC"

=============================================================================
